---------------------------- MODULE Spec2Model ----------------------------
(***************************************************************************)
(* Model of the `lint` sub-commands of ggwpez/feature (src/cmd/lint.rs)    *)
(* and of the dependency resolver (src/cmd/mod.rs).                        *)
(*                                                                         *)
(* Strings are sequences of one-character strings, so that formatting      *)
(* ("{}/{}"), splitting, replacing and the lexicographic order of the      *)
(* BTree containers are computed, not assumed.  Option<T> is a sequence of *)
(* length 0 (None) or 1 (Some).                                            *)
(***************************************************************************)
EXTENDS Naturals, Integers, Sequences, FiniteSets, TLC

(* ------------------------------ bounds --------------------------------- *)

\* Longest implication list of a feature in a generated snapshot.
MaxImplications == 2

(* ------------------------------ strings -------------------------------- *)

\* Code points of the characters that occur in the model's strings.
Ord(ch) ==
    CASE ch = " " -> 32 [] ch = "-" -> 45 [] ch = "/" -> 47 [] ch = "1" -> 49
      [] ch = ":" -> 58 [] ch = ">" -> 62 [] ch = "?" -> 63 [] ch = "_" -> 95
      [] ch = "a" -> 97 [] ch = "b" -> 98 [] ch = "c" -> 99 [] ch = "d" -> 100
      [] ch = "e" -> 101 [] ch = "f" -> 102 [] ch = "l" -> 108 [] ch = "p" -> 112
      [] ch = "r" -> 114 [] ch = "s" -> 115 [] ch = "t" -> 116
      [] ch = "u" -> 117 [] ch = "x" -> 120 [] ch = "z" -> 122

\* Ord for String: the order of BTreeMap<String, _> and BTreeSet<String>.
RECURSIVE StrLess(_, _)
StrLess(s, t) ==
    IF t = <<>> THEN FALSE
    ELSE IF s = <<>> THEN TRUE
    ELSE IF Ord(Head(s)) # Ord(Head(t)) THEN Ord(Head(s)) < Ord(Head(t))
    ELSE StrLess(Tail(s), Tail(t))

\* Iteration order of a BTreeSet<String> / the keys of a BTreeMap<String, _>.
RECURSIVE BTreeIter(_)
BTreeIter(S) ==
    IF S = {} THEN <<>>
    ELSE LET m == CHOOSE x \in S : \A y \in S \ {x} : StrLess(x, y)
         IN  <<m>> \o BTreeIter(S \ {m})

\* str::replace for a one-character pattern and replacement.
ReplaceChar(s, from, to) == [i \in DOMAIN s |-> IF s[i] = from THEN to ELSE s[i]]

\* str::replace(pattern, "") for a one-character pattern.
RECURSIVE RemoveChar(_, _)
RemoveChar(s, ch) ==
    IF s = <<>> THEN <<>>
    ELSE IF Head(s) = ch THEN RemoveChar(Tail(s), ch)
    ELSE <<Head(s)>> \o RemoveChar(Tail(s), ch)

\* str::contains for a one-character pattern.
ContainsChar(s, ch) == \E i \in DOMAIN s : s[i] = ch

\* str::split for a one-character pattern, collected.
RECURSIVE Split(_, _)
Split(s, ch) ==
    IF ~ContainsChar(s, ch) THEN <<s>>
    ELSE LET i == CHOOSE k \in DOMAIN s : s[k] = ch /\ \A j \in 1..(k - 1) : s[j] # ch
         IN  <<SubSeq(s, 1, i - 1)>> \o Split(SubSeq(s, i + 1, Len(s)), ch)

\* format!("{}/{}", a, b)
Format(a, b) == a \o <<"/">> \o b

\* Vec::contains / slice::contains
VecContains(v, x) == \E i \in DOMAIN v : v[i] = x

\* [T]::join(sep) for a vector of strings.
RECURSIVE Join(_, _)
Join(v, sep) ==
    IF v = <<>> THEN <<>>
    ELSE IF Len(v) = 1 THEN v[1]
    ELSE v[1] \o sep \o Join(Tail(v), sep)

SeqToSet(v) == {v[i] : i \in DOMAIN v}

(* --------------------------- Option<T> --------------------------------- *)

None == <<>>
Some(x) == <<x>>
IsSome(o) == o # <<>>
Unwrap(o) == o[1]

(* --------------------------- vocabulary -------------------------------- *)

DefaultFeature == <<"d", "e", "f", "a", "u", "l", "t">>
Std == <<"s", "t", "d">>
Rt == <<"r", "t">>

NameA == <<"a">>
NameB == <<"b">>
NameC == <<"c", "-", "d">>
NameZ == <<"z">>
AliasX == <<"x">>

\* PackageId::to_string(): the name followed by a version, never just a name.
IdOf(name) == name \o <<" ", "1">>

(* --------------------------- the resolver ------------------------------ *)

\* Metadata::workspace_packages(): the packages that are workspace members.
workspace_packages(meta) ==
    SelectSeq(meta.packages, LAMBDA p : p.id \in meta.workspace_members)

\* Iterator::find is First of the filtered vector: the first element
\* satisfying the predicate, if any.
First(hits) == IF hits = <<>> THEN None ELSE Some(hits[1])

resolve_dep_from_workspace(dep, meta) ==
    LET work == First(SelectSeq(workspace_packages(meta), LAMBDA w : w.name = dep.name))
    IN  IF ~IsSome(work) THEN None
        ELSE First(SelectSeq(meta.packages, LAMBDA p : p.id = Unwrap(work).id))

\* A resolver that, once the package's node is found, takes the dependency
\* from the package list by name without consulting the node's edges.
resolve_dep_from_graph_by_name(pkg, dep, meta, resolve) ==
    IF ~IsSome(First(SelectSeq(resolve.nodes, LAMBDA node : node.id = pkg.id))) THEN None
    ELSE First(SelectSeq(meta.packages, LAMBDA p : p.name = dep.name))

resolve_dep_from_graph(pkg, dep, meta, resolve) ==
    LET dep_name == ReplaceChar(dep.name, "-", "_")
        resolved_pkg == First(SelectSeq(resolve.nodes, LAMBDA node : node.id = pkg.id))
    IN  IF ~IsSome(resolved_pkg) THEN None
        ELSE LET resolved_dep_id ==
                     First(SelectSeq(Unwrap(resolved_pkg).deps, LAMBDA node : node.name = dep_name))
             IN  IF ~IsSome(resolved_dep_id) THEN None
                 ELSE First(SelectSeq(meta.packages, LAMBDA p : p.id = Unwrap(resolved_dep_id).pkg))

resolve_dep(pkg, dep, meta) ==
    IF IsSome(meta.resolve)
    THEN resolve_dep_from_graph(pkg, dep, meta, Unwrap(meta.resolve))
    ELSE resolve_dep_from_workspace(dep, meta)


(* --------------------------- snapshots --------------------------------- *)

\* cargo_metadata::Dependency, as declared in the owning manifest.
Dep(name, rename, udf, feats) ==
    [name |-> name, rename |-> rename, uses_default_features |-> udf, features |-> feats]

\* cargo_metadata::Package.  in_allowed_dir abstracts
\* canonicalize(manifest_path).starts_with(allowed_dir).
Pkg(name, inDir, deps, feats) ==
    [id |-> IdOf(name), name |-> name, in_allowed_dir |-> inDir,
     dependencies |-> deps, features |-> feats]

\* cargo_metadata::NodeDep of an active dependency: named by the rename when
\* there is one, else by the package name, with dashes folded to underscores.
NodeDepOf(dep) ==
    [name |-> ReplaceChar(IF IsSome(dep.rename) THEN Unwrap(dep.rename) ELSE dep.name,
                          "-", "_"),
     pkg |-> IdOf(dep.name)]

\* cargo_metadata::Node of `pkg` whose dependencies `inactive` (by package
\* name) are optional-and-disabled, dev or target-excluded.
NodeOf(pkg, inactive) ==
    [id |-> pkg.id,
     deps |-> [i \in DOMAIN SelectSeq(pkg.dependencies, LAMBDA d : d.name \notin inactive)
                 |-> NodeDepOf(SelectSeq(pkg.dependencies,
                                         LAMBDA d : d.name \notin inactive)[i])]]

\* cargo_metadata::Metadata with a resolve graph (full dependency closure).
\* inactive[i] names the dependencies of packages[i] absent from its node.
MetaResolved(pkgs, inactive) ==
    [packages |-> pkgs,
     workspace_members |-> {pkgs[i].id : i \in DOMAIN pkgs},
     resolve |-> Some([nodes |-> [i \in DOMAIN pkgs |-> NodeOf(pkgs[i], inactive[i])]])]

\* cargo_metadata::Metadata loaded with no_deps (`--workspace`): no resolve.
MetaWorkspace(pkgs) ==
    [packages |-> pkgs,
     workspace_members |-> {pkgs[i].id : i \in DOMAIN pkgs},
     resolve |-> None]

\* The implication lists a manifest can give a feature: any choice of at
\* most MaxImplications of the candidate tokens.
Lists(tokens) ==
    {BTreeIter(S) : S \in {T \in SUBSET tokens : Cardinality(T) <= MaxImplications}}

\* A feature table: `given` extended by feature f with list l.
WithFeature(given, f, l) ==
    [g \in DOMAIN given \cup {f} |-> IF g = f THEN l ELSE given[g]]

NoFeatures == [g \in {} |-> <<>>]

\* The three packages of the generated workspaces: a depends on b and on
\* c-d, b depends on c-d, c-d depends on nothing.
Workspace(aDeps, aFeats, aDir, bDeps, bFeats, bDir, cFeats, cDir) ==
    << Pkg(NameA, aDir, aDeps, aFeats),
       Pkg(NameB, bDir, bDeps, bFeats),
       Pkg(NameC, cDir, <<>>, cFeats) >>


(* ------------------------------ state ---------------------------------- *)

VARIABLES
    cmd,                  \* the operation being run
    args,                 \* its command-line options / function arguments
    meta,                 \* the metadata snapshot (load_metadata)
    pc,                   \* position in the operation
    todo,                 \* what the current loop has still to iterate over
    result,               \* resolve_dep: the returned Option<Package>
    dag,                  \* Never-Implies: the edges of the Dag, in insertion order
    offenders,            \* Never-Enables: BTreeMap<CrateId, BTreeSet<CrateId>>
    propagate_missing,    \* Propagate-Feature: BTreeMap<CrateId, BTreeSet<CrateId>>
    feature_missing,      \* Propagate-Feature: BTreeMap<CrateId, BTreeSet<CrateId>>
    feature_maybe_unused, \* Propagate-Feature: BTreeSet<CrateId>
    errors,               \* Propagate-Feature: error counter
    fixes,                \* Propagate-Feature: fix counter
    opened,               \* manifests an AutoFixer was created from
    calls,                \* the AutoFixer calls made so far, in order
    manifest,             \* the feature tables of the manifests on disk
    stdout,               \* what println! has written
    exit_code             \* None while running, else Some(process exit status)

vars == << cmd, args, meta, pc, todo, result, dag, offenders, propagate_missing,
           feature_missing, feature_maybe_unused, errors, fixes, opened, calls,
           manifest, stdout, exit_code >>

\* The exit status of a Rust process that panicked.
PanicCode == 101

EmptyMap == [k \in {} |-> {}]

\* Option values of a run; fields a command does not have keep these defaults.
NoArgs ==
    [feature |-> Std, packages |-> <<>>, fix |-> FALSE, fix_package |-> None,
     fix_dependency |-> None, precondition |-> Rt, stays_disabled |-> Std,
     path_delimiter |-> <<" ", "-", ">", " ">>, pkg |-> 1, dep |-> 1]

\* The state right after load_metadata() of operation c with options a.
Loaded(c, a, m) ==
    /\ cmd = c
    /\ args = a
    /\ meta = m
    /\ pc = "start"
    /\ todo = IF c = "enables" THEN m.packages ELSE <<>>
    /\ result = None
    /\ dag = <<>>
    /\ offenders = EmptyMap
    /\ propagate_missing = EmptyMap
    /\ feature_missing = EmptyMap
    /\ feature_maybe_unused = {}
    /\ errors = 0
    /\ fixes = 0
    /\ opened = {}
    /\ calls = <<>>
    /\ manifest = [id \in {m.packages[i].id : i \in DOMAIN m.packages} |->
                     (CHOOSE p \in SeqToSet(m.packages) : p.id = id).features]
    /\ stdout = <<>>
    /\ exit_code = None

\* The `lookup` closures: find the package with this id, or panic (None).
lookup(pkgs, id) == First(SelectSeq(pkgs, LAMBDA p : p.id = id))

(* ------------------------ resolve_dep as a step ------------------------ *)

\* Applies resolve_dep to dependency args.dep of package args.pkg.
ResolveDep ==
    /\ cmd = "resolve" /\ pc = "start"
    /\ result' = resolve_dep(meta.packages[args.pkg],
                             meta.packages[args.pkg].dependencies[args.dep], meta)
    /\ pc' = "done"
    /\ exit_code' = Some(0)
    /\ UNCHANGED << cmd, args, meta, todo, dag, offenders, propagate_missing,
                    feature_missing, feature_maybe_unused, errors, fixes, opened,
                    calls, manifest, stdout >>

(* ---------------------- the manifest autofixer ------------------------- *)

\* AutoFixer::add_to_feature on a document (a feature table): appends the
\* value to the feature's list unless it is already there.
add_to_feature(doc, feature, value) ==
    IF VecContains(doc[feature], value) THEN doc
    ELSE [doc EXCEPT ![feature] = Append(@, value)]

(* ------------------------- Propagate-Feature --------------------------- *)

\* A run that ignores the `packages` filter.
to_check_unfiltered(pkgs, packages) == pkgs

\* The packages the run checks: all of them, or those named by `packages`.
to_check(pkgs, packages) ==
    IF packages # <<>>
    THEN SelectSeq(pkgs, LAMBDA p : VecContains(packages, p.name))
    ELSE pkgs

\* A classification that looks for the bare dependency name in the list
\* instead of `name/feature`.
Classify_bare_name(pkg, d, m, feature) ==
    LET dep == resolve_dep(pkg, d, m)
    IN  IF ~IsSome(dep) THEN "unresolved"
        ELSE IF feature \notin DOMAIN Unwrap(dep).features THEN "dep_lacks_feature"
        ELSE IF feature \notin DOMAIN pkg.features THEN "feature_missing"
        ELSE IF ~VecContains(pkg.features[feature], Unwrap(dep).name)
             THEN "propagate_missing"
        ELSE "ok"

\* What the body of the dependency loop does for one dependency of pkg.
Classify(pkg, d, m, feature) ==
    LET dep == resolve_dep(pkg, d, m)
    IN  IF ~IsSome(dep) THEN "unresolved"
        ELSE IF feature \notin DOMAIN Unwrap(dep).features THEN "dep_lacks_feature"
        ELSE IF feature \notin DOMAIN pkg.features THEN "feature_missing"
        ELSE IF ~VecContains(pkg.features[feature], Format(Unwrap(dep).name, feature))
             THEN "propagate_missing"
        ELSE "ok"

\* The dependencies of pkg (as resolved ids) that the loop puts in class c.
ClassDeps(pkg, m, feature, c) ==
    {Unwrap(resolve_dep(pkg, pkg.dependencies[i], m)).id :
        i \in {j \in DOMAIN pkg.dependencies :
                 Classify(pkg, pkg.dependencies[j], m, feature) = c}}

\* The map the classification loop builds for class c over the checked packages.
ClassMap(checked, m, feature, c) ==
    LET keys == {p \in SeqToSet(checked) : ClassDeps(p, m, feature, c) # {}}
    IN  [id \in {p.id : p \in keys} |->
            ClassDeps(CHOOSE p \in keys : p.id = id, m, feature, c)]

\* feature_used at the end of the dependency loop of pkg.
feature_used(pkg, m, feature) ==
    \E i \in DOMAIN pkg.dependencies :
        Classify(pkg, pkg.dependencies[i], m, feature) \in {"unresolved", "ok"}

MaybeUnused(checked, m, feature) ==
    {p.id : p \in {q \in SeqToSet(checked) :
                     ~feature_used(q, m, feature) /\ feature \in DOMAIN q.features}}

\* Lines 354-430: filter, classification loop, faulty_crates, counters.
PF_Classify ==
    /\ cmd = "propagate" /\ pc = "start"
    /\ LET checked == to_check(meta.packages, args.packages)
       IN  IF checked = <<>>
           THEN /\ pc' = "done"
                /\ exit_code' = Some(PanicCode)
                /\ UNCHANGED << todo, propagate_missing, feature_missing,
                                feature_maybe_unused >>
           ELSE /\ propagate_missing' =
                       ClassMap(checked, meta, args.feature, "propagate_missing")
                /\ feature_missing' =
                       ClassMap(checked, meta, args.feature, "feature_missing")
                /\ feature_maybe_unused' = MaybeUnused(checked, meta, args.feature)
                /\ todo' = BTreeIter(DOMAIN propagate_missing' \cup DOMAIN feature_missing'
                                       \cup feature_maybe_unused')
                /\ pc' = "faulty"
                /\ UNCHANGED exit_code
    /\ errors' = 0
    /\ fixes' = 0
    /\ UNCHANGED << cmd, args, meta, result, dag, offenders, opened, calls,
                    manifest, stdout >>

\* The names of a set of crate ids, in BTreeSet order.
DepNames(pkgs, ids) ==
    LET order == BTreeIter(ids)
    IN  [i \in DOMAIN order |-> Unwrap(lookup(pkgs, order[i])).name]

\* The dependencies the fix loop of krate adds a value for (lines 471-489).
FixDeps(krate, a, pm, pkgs, has_fixer) ==
    IF /\ krate.id \in DOMAIN pm
       /\ a.fix
       /\ (IsSome(a.fix_package) => Unwrap(a.fix_package) = krate.name)
       /\ has_fixer
    THEN SelectSeq(DepNames(pkgs, pm[krate.id]),
                   LAMBDA dep_name : IsSome(a.fix_dependency)
                                        => Unwrap(a.fix_dependency) = dep_name)
    ELSE <<>>

\* The document of a fixer after add_to_feature of `feature` for each dep name.
RECURSIVE AddAll(_, _, _)
AddAll(doc, feature, dep_names) ==
    IF dep_names = <<>> THEN doc
    ELSE AddAll(add_to_feature(doc, feature, Format(Head(dep_names), feature)),
                feature, Tail(dep_names))

\* Whether the run saves after the edits of one crate (line 493).
save_due(fixes_now) == fixes_now > 0

\* One iteration of the loop over faulty_crates (lines 431-503).
PF_Krate ==
    /\ cmd = "propagate" /\ pc = "faulty" /\ todo # <<>>
    /\ LET krate == Unwrap(lookup(meta.packages, Head(todo)))
           has_fixer == krate.in_allowed_dir
           fm == krate.id \in DOMAIN feature_missing
           pm == krate.id \in DOMAIN propagate_missing
           fix_deps == FixDeps(krate, args, propagate_missing, meta.packages, has_fixer)
           doc == AddAll(manifest[krate.id], args.feature, fix_deps)
           adds == [i \in DOMAIN fix_deps |->
                      [op |-> "add_to_feature", id |-> krate.id,
                       value |-> Format(fix_deps[i], args.feature)]]
       IN  /\ opened' = IF has_fixer THEN opened \cup {krate.id} ELSE opened
           /\ stdout' = Append(stdout,
                  [crate |-> krate.name, feature |-> args.feature,
                   must_exist |-> IF fm THEN Some(DepNames(meta.packages,
                                                           feature_missing[krate.id]))
                                  ELSE None,
                   must_propagate |-> IF pm THEN Some(DepNames(meta.packages,
                                                         propagate_missing[krate.id]))
                                      ELSE None])
           /\ errors' = errors + (IF fm THEN 1 ELSE 0) + (IF pm THEN 1 ELSE 0)
           /\ fixes' = fixes + Len(fix_deps)
           /\ IF save_due(fixes')
              THEN IF has_fixer
                   THEN /\ calls' = calls \o adds \o << [op |-> "save", id |-> krate.id,
                                                         value |-> <<>>] >>
                        /\ manifest' = [manifest EXCEPT ![krate.id] = doc]
                        /\ todo' = Tail(todo)
                        /\ UNCHANGED << pc, exit_code >>
                   ELSE \* fixer.unwrap() on None
                        /\ calls' = calls \o adds
                        /\ pc' = "done"
                        /\ exit_code' = Some(PanicCode)
                        /\ UNCHANGED << manifest, todo >>
              ELSE /\ calls' = calls \o adds
                   /\ todo' = Tail(todo)
                   /\ UNCHANGED << manifest, pc, exit_code >>
    /\ UNCHANGED << cmd, args, meta, result, dag, offenders, propagate_missing,
                    feature_missing, feature_maybe_unused >>

\* Lines 504-507: the summary line, then run() returns.
PF_Finish ==
    /\ cmd = "propagate" /\ pc = "faulty" /\ todo = <<>>
    /\ stdout' = IF errors > 0
                 THEN Append(stdout, [errors |-> errors, warnings |-> 0, fixed |-> fixes])
                 ELSE stdout
    /\ pc' = "done"
    /\ exit_code' = Some(0)
    /\ UNCHANGED << cmd, args, meta, todo, result, dag, offenders, propagate_missing,
                    feature_missing, feature_maybe_unused, errors, fixes, opened,
                    calls, manifest >>


(* --------------------------- Never-Enables ----------------------------- *)

\* A package loop without the check for the bare stays_disabled token.
Enablers_forwarded_only(pkg, m, a) ==
    IF a.precondition \notin DOMAIN pkg.features THEN {}
    ELSE LET enabled == pkg.features[a.precondition]
         IN  {Unwrap(resolve_dep(pkg, pkg.dependencies[i], m)).id :
                i \in {j \in DOMAIN pkg.dependencies :
                         LET dep == resolve_dep(pkg, pkg.dependencies[j], m)
                         IN  /\ IsSome(dep)
                             /\ VecContains(enabled,
                                    Format(Unwrap(dep).name, a.stays_disabled))}}

\* What one iteration of the package loop inserts for pkg (lines 311-327):
\* the set of offending ids, empty when nothing is inserted.
Enablers(pkg, m, a) ==
    IF a.precondition \notin DOMAIN pkg.features THEN {}
    ELSE LET enabled == pkg.features[a.precondition]
         IN  (IF VecContains(enabled, a.stays_disabled) THEN {pkg.id} ELSE {})
             \cup
             {Unwrap(resolve_dep(pkg, pkg.dependencies[i], m)).id :
                i \in {j \in DOMAIN pkg.dependencies :
                         LET dep == resolve_dep(pkg, pkg.dependencies[j], m)
                         IN  /\ IsSome(dep)
                             /\ VecContains(enabled,
                                    Format(Unwrap(dep).name, a.stays_disabled))}}

\* One iteration of the loop over the packages (lines 310-328).
NE_Pkg ==
    /\ cmd = "enables" /\ pc = "start" /\ todo # <<>>
    /\ LET pkg == Head(todo)
           found == Enablers(pkg, meta, args)
       IN  offenders' = IF found = {} THEN offenders
                        ELSE [k \in DOMAIN offenders \cup {pkg.id} |->
                                 IF k = pkg.id
                                 THEN (IF k \in DOMAIN offenders THEN offenders[k] ELSE {})
                                      \cup found
                                 ELSE offenders[k]]
    /\ todo' = Tail(todo)
    /\ UNCHANGED << cmd, args, meta, pc, result, dag, propagate_missing,
                    feature_missing, feature_maybe_unused, errors, fixes, opened,
                    calls, manifest, stdout, exit_code >>

\* Lines 330-348: print every offender with its dependencies, then return.
NE_Report ==
    /\ cmd = "enables" /\ pc = "start" /\ todo = <<>>
    /\ LET ids == BTreeIter(DOMAIN offenders)
       IN  stdout' = [i \in DOMAIN ids |->
                        [crate |-> Unwrap(lookup(meta.packages, ids[i])).name,
                         feature |-> args.precondition,
                         enables |-> args.stays_disabled,
                         deps |-> DepNames(meta.packages, offenders[ids[i]])]]
    /\ pc' = "done"
    /\ exit_code' = Some(0)
    /\ UNCHANGED << cmd, args, meta, todo, result, dag, offenders, propagate_missing,
                    feature_missing, feature_maybe_unused, errors, fixes, opened,
                    calls, manifest >>

(* ------------------------------- Dag ----------------------------------- *)

\* A vertex: CrateAndFeature(String, String).
CrateAndFeature(krate, feature) == << krate, feature >>

\* Display for CrateAndFeature / the token pushed to `out`.
Token(name, feature) == Format(name, feature)

\* Dag::add_edge: records the edge once.
add_edge(g, from, to) ==
    IF VecContains(g, << from, to >>) THEN g ELSE Append(g, << from, to >>)

RECURSIVE AddEdges(_, _)
AddEdges(g, es) ==
    IF es = <<>> THEN g ELSE AddEdges(add_edge(g, Head(es)[1], Head(es)[2]), Tail(es))

\* Dag::lhs_nodes: the vertices with an outgoing edge, in insertion order.
RECURSIVE lhs_nodes(_)
lhs_nodes(g) ==
    IF g = <<>> THEN <<>>
    ELSE LET rest == lhs_nodes(SubSeq(g, 1, Len(g) - 1))
             from == g[Len(g)][1]
         IN  IF VecContains(rest, from) THEN rest ELSE Append(rest, from)

\* Breadth-first search over a queue of paths; `visited` are the vertices
\* already enqueued.
RECURSIVE Bfs(_, _, _, _)
Bfs(g, queue, visited, stays) ==
    IF queue = <<>> THEN None
    ELSE LET path == Head(queue)
             v == path[Len(path)]
         IN  IF v[2] = stays THEN Some(path)
             ELSE LET out == SelectSeq(g, LAMBDA e : e[1] = v /\ e[2] \notin visited)
                  IN  Bfs(g,
                          Tail(queue) \o [i \in DOMAIN out |-> Append(path, out[i][2])],
                          visited \cup {out[i][2] : i \in DOMAIN out},
                          stays)

\* Dag::reachable_predicate(from, |CrateAndFeature(_, enabled)| enabled == stays):
\* the shortest path from `from` to a vertex of feature `stays`, or None.
reachable_predicate(g, from, stays) == Bfs(g, << <<from>> >>, {from}, stays)

(* --------------------------- Never-Implies ----------------------------- *)

\* The edges added for one declared dependency (lines 149-160).
DepEdges(pkg, dep) ==
    (IF dep.uses_default_features
     THEN << << CrateAndFeature(pkg.id, DefaultFeature),
                CrateAndFeature(dep.name, DefaultFeature) >> >>
     ELSE <<>>)
    \o [i \in DOMAIN dep.features |->
          << CrateAndFeature(pkg.id, DefaultFeature),
             CrateAndFeature(dep.name, dep.features[i]) >>]

\* dep_id of lines 177-185 and 213-221: the id of the resolved package, or
\* the declared name when the dependency does not resolve.
dep_id(pkg, dep, m) ==
    LET r == resolve_dep(pkg, dep, m)
    IN  IF IsSome(r) THEN Unwrap(r).id ELSE dep.name

\* The declared dependency a token names (lines 171-175, 203-211).
find_dep(pkg, name) ==
    First(SelectSeq(pkg.dependencies,
         LAMBDA d : (IF IsSome(d.rename) THEN Unwrap(d.rename) ELSE d.name) = name))

\* The target of the edge added for one entry of a feature's list
\* (lines 165-250); None where the code panics.
Implied(pkg, entry, m) ==
    IF ContainsChar(entry, ":")
    THEN LET dep == find_dep(pkg, Split(entry, ":")[2])
         IN  IF ~IsSome(dep) THEN None
             ELSE Some(CrateAndFeature(dep_id(pkg, Unwrap(dep), m), DefaultFeature))
    ELSE IF ContainsChar(entry, "/")
    THEN LET splits == Split(entry, "/")
             dep == find_dep(pkg, RemoveChar(splits[1], "?"))
         IN  IF ~IsSome(dep) THEN None
             ELSE Some(CrateAndFeature(dep_id(pkg, Unwrap(dep), m), splits[2]))
    ELSE IF entry \notin DOMAIN pkg.features THEN None
    ELSE Some(CrateAndFeature(pkg.id, entry))

\* Concatenation of a sequence of sequences.
RECURSIVE Concat(_)
Concat(ss) == IF ss = <<>> THEN <<>> ELSE Head(ss) \o Concat(Tail(ss))

\* The (source, Option<target>) pairs of one package, in the order the
\* builder visits them: dependency declarations, then the feature map.
PkgEdges(pkg, m) ==
    LET feats == BTreeIter(DOMAIN pkg.features)
    IN  Concat([i \in DOMAIN pkg.dependencies |->
                  [j \in DOMAIN DepEdges(pkg, pkg.dependencies[i]) |->
                     << DepEdges(pkg, pkg.dependencies[i])[j][1],
                        Some(DepEdges(pkg, pkg.dependencies[i])[j][2]) >>]])
        \o
        Concat([i \in DOMAIN feats |->
                  [j \in DOMAIN pkg.features[feats[i]] |->
                     << CrateAndFeature(pkg.id, feats[i]),
                        Implied(pkg, pkg.features[feats[i]][j], m) >>]])

AllEdges(m) == Concat([i \in DOMAIN m.packages |-> PkgEdges(m.packages[i], m)])

\* Lines 144-253: builds the Dag, or panics on an unknown dependency or an
\* unknown own feature.
NI_Build ==
    /\ cmd = "implies" /\ pc = "start"
    /\ LET es == AllEdges(meta)
       IN  IF \E i \in DOMAIN es : ~IsSome(es[i][2])
           THEN /\ pc' = "done"
                /\ exit_code' = Some(PanicCode)
                /\ UNCHANGED << dag, todo >>
           ELSE /\ dag' = AddEdges(<<>>, [i \in DOMAIN es |->
                                             << es[i][1], Unwrap(es[i][2]) >>])
                /\ todo' = lhs_nodes(dag')
                /\ pc' = "scan"
                /\ UNCHANGED exit_code
    /\ UNCHANGED << cmd, args, meta, result, offenders, propagate_missing,
                    feature_missing, feature_maybe_unused, errors, fixes, opened,
                    calls, manifest, stdout >>

\* The names of the crates of a path (the `lookup` of lines 263-267 applied
\* to every vertex); None where a lookup panics.
PathTokens(pkgs, path) ==
    IF \E i \in DOMAIN path : ~IsSome(lookup(pkgs, path[i][1])) THEN None
    ELSE Some([i \in DOMAIN path |->
                 Token(Unwrap(lookup(pkgs, path[i][1])).name, path[i][2])])

\* One iteration of the loop over lhs_nodes (lines 255-294).  The options
\* show_version and show_source are off and the delimiter has no escapes.
NI_Check ==
    /\ cmd = "implies" /\ pc = "scan" /\ todo # <<>>
    /\ LET node == Head(todo)
           path == reachable_predicate(dag, node, args.stays_disabled)
       IN  IF node[2] = args.precondition /\ IsSome(path)
           THEN LET tokens == PathTokens(meta.packages, Unwrap(path))
                IN  IF IsSome(tokens)
                    THEN /\ stdout' = Append(stdout,
                               [precondition |-> args.precondition,
                                stays_disabled |-> args.stays_disabled,
                                path |-> Unwrap(path),
                                out |-> Join(Unwrap(tokens), args.path_delimiter)])
                         /\ exit_code' = Some(1)
                         /\ pc' = "done"
                         /\ UNCHANGED todo
                    ELSE /\ exit_code' = Some(PanicCode)
                         /\ pc' = "done"
                         /\ UNCHANGED << todo, stdout >>
           ELSE /\ todo' = Tail(todo)
                /\ UNCHANGED << pc, stdout, exit_code >>
    /\ UNCHANGED << cmd, args, meta, result, dag, offenders, propagate_missing,
                    feature_missing, feature_maybe_unused, errors, fixes, opened,
                    calls, manifest >>

\* Line 295: no precondition vertex reaches stays_disabled; run() returns.
NI_Return ==
    /\ cmd = "implies" /\ pc = "scan" /\ todo = <<>>
    /\ pc' = "done"
    /\ exit_code' = Some(0)
    /\ UNCHANGED << cmd, args, meta, todo, result, dag, offenders, propagate_missing,
                    feature_missing, feature_maybe_unused, errors, fixes, opened,
                    calls, manifest, stdout >>


(* ------------------------- initial states ------------------------------ *)

\* The entry `NAME/FEATURE` of an implication list.
Forward(name, feature) == Format(name, feature)
\* The entry `NAME?/FEATURE`.
WeakForward(name, feature) == name \o <<"?", "/">> \o feature
\* The entry `dep:NAME`.
DepColon(name) == <<"d", "e", "p", ":">> \o name

\* The name a manifest's feature table uses for a dependency.
Effective(rename, name) == IF IsSome(rename) THEN Unwrap(rename) ELSE name

\* resolve_dep applied to every declared dependency of the first two
\* packages, over snapshots with and without a resolve graph, with renamed
\* and inactive dependencies, a package without a node and a resolved edge
\* whose package is not in the snapshot.
InitResolve ==
    \E rb \in {None, Some(AliasX)}, rc \in {None, Some(NameZ)},
       off \in SUBSET {NameB, NameC},
       shape \in {"workspace", "resolved", "no_node", "no_package"},
       target \in {<<1, 1>>, <<1, 2>>, <<2, 1>>} :
        LET ws == Workspace(<< Dep(NameB, rb, TRUE, <<>>), Dep(NameC, rc, TRUE, <<>>) >>,
                            NoFeatures, TRUE,
                            << Dep(NameC, None, TRUE, <<>>) >>, NoFeatures, TRUE,
                            NoFeatures, TRUE)
            full == MetaResolved(ws, << off, {}, {} >>)
            m == CASE shape = "workspace" -> MetaWorkspace(ws)
                   [] shape = "resolved" -> full
                   [] shape = "no_node" ->
                        [full EXCEPT !.resolve =
                            Some([nodes |-> Tail(Unwrap(full.resolve).nodes)])]
                   [] shape = "no_package" ->
                        [full EXCEPT !.packages = SubSeq(ws, 1, 2)]
        IN  Loaded("resolve", [NoArgs EXCEPT !.pkg = target[1], !.dep = target[2]], m)

\* The feature tables of a package that may declare `feature` with a list
\* drawn from `tokens`.
MaybeDeclares(base, feature, tokens) ==
    {base} \cup {WithFeature(base, feature, l) : l \in Lists(tokens)}

\* Propagate-Feature of feature std over the three-package workspace.
InitPropagate ==
    \E aFeats \in MaybeDeclares(NoFeatures, Std, {Forward(NameB, Std), Forward(NameC, Std)}),
       bFeats \in MaybeDeclares(NoFeatures, Std, {Forward(NameC, Std)}),
       cFeats \in MaybeDeclares(NoFeatures, Std, {}),
       aOff \in SUBSET {NameC}, bOff \in SUBSET {NameC},
       aDir \in BOOLEAN, bDir \in BOOLEAN,
       fix \in BOOLEAN, fix_package \in {None, Some(NameA)},
       fix_dependency \in {None, Some(NameC)},
       packages \in {<<>>, <<NameA>>, <<NameB>>, <<NameZ>>} :
        /\ ~fix => (fix_package = None /\ fix_dependency = None)
        /\ LET ws == Workspace(<< Dep(NameB, None, TRUE, <<>>), Dep(NameC, None, TRUE, <<>>) >>,
                               aFeats, aDir,
                               << Dep(NameC, None, TRUE, <<>>) >>, bFeats, bDir,
                               cFeats, TRUE)
           IN  Loaded("propagate",
                      [NoArgs EXCEPT !.feature = Std, !.packages = packages, !.fix = fix,
                                     !.fix_package = fix_package,
                                     !.fix_dependency = fix_dependency],
                      MetaResolved(ws, << aOff, bOff, {} >>))

\* Never-Enables of rt => std over the three-package workspace.
InitEnables ==
    \E aFeats \in MaybeDeclares(WithFeature(NoFeatures, Std, <<>>), Rt,
                                {Std, Forward(NameB, Std), Forward(NameC, Std),
                                 Forward(NameB, Rt)}),
       bFeats \in MaybeDeclares(WithFeature(NoFeatures, Std, <<>>), Rt,
                                {Std, Forward(NameC, Std)}),
       aOff \in SUBSET {NameC}, bOff \in SUBSET {NameC} :
        LET ws == Workspace(<< Dep(NameB, None, TRUE, <<>>), Dep(NameC, None, TRUE, <<>>) >>,
                            aFeats, TRUE,
                            << Dep(NameC, None, TRUE, <<>>) >>, bFeats, TRUE,
                            WithFeature(NoFeatures, Std, <<>>), TRUE)
        IN  Loaded("enables", [NoArgs EXCEPT !.precondition = Rt, !.stays_disabled = Std],
                   MetaResolved(ws, << aOff, bOff, {} >>))

\* Never-Implies of (rt or default) => std over the three-package workspace.
InitImplies ==
    \E rb \in {None, Some(AliasX)}, udf \in BOOLEAN,
       aReq \in {<<>>, <<Std>>}, bReq \in {<<>>, <<Std>>},
       aOff \in SUBSET {NameC}, bOff \in SUBSET {NameC},
       precondition \in {Rt, DefaultFeature} :
       \E aList \in Lists({Forward(Effective(rb, NameB), Rt),
                           Forward(Effective(rb, NameB), Std),
                           WeakForward(NameC, Std), DepColon(NameC), Std}),
          bList \in Lists({Forward(NameC, Std), Std}) :
        LET std == WithFeature(NoFeatures, Std, <<>>)
            ws == Workspace(<< Dep(NameB, rb, udf, aReq), Dep(NameC, None, TRUE, <<>>) >>,
                            WithFeature(std, Rt, aList), TRUE,
                            << Dep(NameC, None, FALSE, bReq) >>,
                            WithFeature(std, Rt, bList), TRUE,
                            std, TRUE)
        IN  Loaded("implies",
                   [NoArgs EXCEPT !.precondition = precondition, !.stays_disabled = Std],
                   MetaResolved(ws, << aOff, bOff, {} >>))

Init == InitResolve \/ InitPropagate \/ InitEnables \/ InitImplies

Next ==
    \/ ResolveDep
    \/ PF_Classify
    \/ PF_Krate
    \/ PF_Finish
    \/ NE_Pkg
    \/ NE_Report
    \/ NI_Build
    \/ NI_Check
    \/ NI_Return

Spec == Init /\ [][Next]_vars


(* ------------------------ vocabulary of the claims --------------------- *)

PkgSet == SeqToSet(meta.packages)
PkgById(id) == CHOOSE p \in PkgSet : p.id = id
DepSet(pkg) == SeqToSet(pkg.dependencies)

\* The packages of the snapshot with this name.
Named(name) == {p \in PkgSet : p.name = name}

\* The dependency d of pkg is inactive in the snapshot: the resolve graph has
\* no edge from pkg's node to the package, whatever the edge is called.
Disabled(pkg, d, c) ==
    /\ IsSome(meta.resolve)
    /\ c \in Named(d.name)
    /\ \A n \in SeqToSet(Unwrap(meta.resolve).nodes) :
          n.id = pkg.id => \A nd \in SeqToSet(n.deps) : nd.pkg # c.id

\* The vertices of the Dag and what each reaches by following edges forward
\* (including itself).
Vertices == {dag[i][1] : i \in DOMAIN dag} \cup {dag[i][2] : i \in DOMAIN dag}

RECURSIVE ReachFrom(_)
ReachFrom(S) ==
    LET next == S \cup {dag[i][2] : i \in {j \in DOMAIN dag : dag[j][1] \in S}}
    IN  IF next = S THEN S ELSE ReachFrom(next)

\* Some precondition vertex reaches a stays_disabled vertex.
Violating ==
    \E v \in Vertices :
        /\ v[2] = args.precondition
        /\ \E w \in ReachFrom({v}) : w[2] = args.stays_disabled

\* A printed Never-Implies record shows a path of the Dag from a precondition
\* vertex to a stays_disabled vertex, one package-name/feature token per vertex.
ShowsPath(rec) ==
    /\ rec.path[1][2] = args.precondition
    /\ rec.path[Len(rec.path)][2] = args.stays_disabled
    /\ \A i \in 1..(Len(rec.path) - 1) : VecContains(dag, << rec.path[i], rec.path[i + 1] >>)
    /\ \A i \in DOMAIN rec.path : \E p \in PkgSet : p.id = rec.path[i][1]
    /\ rec.out = Join([i \in DOMAIN rec.path |->
                         Format(PkgById(rec.path[i][1]).name, rec.path[i][2])],
                      args.path_delimiter)

\* The packages a Propagate-Feature run checks, and the faulty ones.
Checked == {p \in PkgSet : args.packages = <<>> \/ VecContains(args.packages, p.name)}
Faulty == DOMAIN propagate_missing \cup DOMAIN feature_missing \cup feature_maybe_unused
Reported == {stdout[i].crate : i \in {j \in DOMAIN stdout : "crate" \in DOMAIN stdout[j]}}
Classified == cmd = "propagate" /\ pc \in {"faulty", "done"} /\ Checked # {}

\* The members of a map entry, empty when the key is absent.
Entry(map, k) == IF k \in DOMAIN map THEN map[k] ELSE {}

(* ------------------------------- claims -------------------------------- *)

\* C1: a Propagate-Feature run that records an error-class finding (a
\* package in feature_missing or in propagate_missing) ends with a non-zero
\* exit status; status 0 only without such a finding.
C1_ExitStatus ==
    (Classified /\ pc = "done"
       /\ DOMAIN feature_missing \cup DOMAIN propagate_missing # {})
    => exit_code # Some(0)

\* C2: when a Never-Implies run ends, then if some precondition vertex
\* reaches a stays_disabled vertex the run has printed one path from a
\* precondition vertex to the offending vertex, one package-name/feature
\* token per vertex, and the status is non-zero; otherwise nothing is
\* printed and the status is 0.
C2_NeverImpliesDetection ==
    (cmd = "implies" /\ pc = "done" /\ dag # <<>>)
    => IF Violating
       THEN /\ Len(stdout) = 1
            /\ ShowsPath(stdout[1])
            /\ exit_code \notin {None, Some(0)}
       ELSE stdout = <<>> /\ exit_code = Some(0)

C4_Classification ==
    Classified =>
        /\ \A p \in Checked : \A d \in DepSet(p) :
              LET r == resolve_dep(p, d, meta)
              IN  (IsSome(r) /\ args.feature \in DOMAIN Unwrap(r).features) =>
                     LET D == Unwrap(r)
                         declares == args.feature \in DOMAIN p.features
                         forwards == declares /\ Forward(D.name, args.feature)
                                                    \in SeqToSet(p.features[args.feature])
                     IN  /\ (D.id \in Entry(feature_missing, p.id)) <=> ~declares
                         /\ (D.id \in Entry(propagate_missing, p.id))
                               <=> (declares /\ ~forwards)
        /\ \A map \in {feature_missing, propagate_missing} : \A k \in DOMAIN map :
              /\ map[k] # {}
              /\ \E p \in Checked : p.id = k
              /\ \A id \in map[k] : \E d \in DepSet(PkgById(k)) :
                    LET r == resolve_dep(PkgById(k), d, meta)
                    IN  /\ IsSome(r) /\ Unwrap(r).id = id
                        /\ args.feature \in DOMAIN Unwrap(r).features

\* C4 witness: package a declares std with `b/std` only, so its dependency
\* on b is forwarded and its dependency on c-d is in propagate_missing, and
\* the loop over the faulty crates has reported it.
C4_Witness ==
    /\ Classified /\ pc = "done"
    /\ Classify(meta.packages[1], meta.packages[1].dependencies[1], meta, args.feature) = "ok"
    /\ IdOf(NameA) \in DOMAIN propagate_missing
    /\ propagate_missing[IdOf(NameA)] = {IdOf(NameC)}
    /\ IdOf(NameA) \notin DOMAIN feature_missing

\* C5: when Never-Enables ends, a package is an offender exactly when it
\* declares precondition with a list that has the bare stays_disabled or
\* `dependency_name/stays_disabled` for a dependency that resolves; its set
\* is exactly those dependencies (itself for the bare token); the offenders
\* are what is printed.
C5_Direct(p) ==
    IF args.precondition \notin DOMAIN p.features THEN {}
    ELSE LET list == SeqToSet(p.features[args.precondition])
         IN  {p.id : x \in {args.stays_disabled} \cap list}
             \cup {Unwrap(resolve_dep(p, d, meta)).id :
                     d \in {e \in DepSet(p) :
                              /\ IsSome(resolve_dep(p, e, meta))
                              /\ Forward(e.name, args.stays_disabled) \in list}}

C5_NeverEnables ==
    (cmd = "enables" /\ pc = "done") =>
        /\ \A p \in PkgSet :
              /\ (p.id \in DOMAIN offenders) <=> (C5_Direct(p) # {})
              /\ Entry(offenders, p.id) = C5_Direct(p)
        /\ {stdout[i].crate : i \in DOMAIN stdout}
              = {p.name : p \in {q \in PkgSet : C5_Direct(q) # {}}}
        /\ \A i \in DOMAIN stdout : \E p \in PkgSet :
              /\ p.name = stdout[i].crate
              /\ SeqToSet(stdout[i].deps) = {PkgById(id).name : id \in C5_Direct(p)}

\* C5 witness: a is an offender through itself and through b, while b, whose
\* rt does not name std directly, is not reported.
C5_Witness ==
    /\ cmd = "enables" /\ pc = "done"
    /\ IdOf(NameA) \in DOMAIN offenders
    /\ offenders[IdOf(NameA)] = {IdOf(NameA), IdOf(NameB)}
    /\ IdOf(NameB) \notin DOMAIN offenders
    /\ Len(stdout) = 1

\* C6: in a Propagate-Feature run with the fix option, when the run ends
\* every faulty package has been reported, a faulty package outside the
\* allowed directory was neither opened nor written nor counted, and the
\* run did not abort.
C6_FixFailureIsolation ==
    (Classified /\ args.fix /\ pc = "done") =>
        /\ exit_code # Some(PanicCode)
        /\ \A id \in Faulty : PkgById(id).name \in Reported
        /\ \A id \in Faulty : ~PkgById(id).in_allowed_dir =>
              /\ id \notin opened
              /\ manifest[id] = PkgById(id).features
              /\ \A k \in DOMAIN calls : calls[k].id # id

\* C7: with a non-empty `packages` filter, only packages named by the filter
\* are classified, reported, opened by the autofixer or written.
C7_PackageFilter ==
    (cmd = "propagate" /\ args.packages # <<>>) =>
        LET named == {p.id : p \in {q \in PkgSet : VecContains(args.packages, q.name)}}
        IN  /\ Faulty \subseteq named
            /\ \A i \in DOMAIN stdout :
                  "crate" \in DOMAIN stdout[i] => VecContains(args.packages, stdout[i].crate)
            /\ opened \subseteq named
            /\ \A k \in DOMAIN calls : calls[k].id \in named
            /\ \A p \in PkgSet : p.id \notin named => manifest[p.id] = p.features

\* C7 witness: the filter names only a; b, which declares std without
\* forwarding it to c-d, is left alone while a is reported and fixed.
C7_Witness ==
    /\ cmd = "propagate" /\ pc = "done" /\ args.packages = <<NameA>>
    /\ Classify(meta.packages[2], meta.packages[2].dependencies[1], meta, args.feature)
          = "propagate_missing"
    /\ NameA \in Reported
    /\ \E k \in DOMAIN calls : calls[k].op = "save" /\ calls[k].id = IdOf(NameA)

\* C8: once the graph is built, every declared dependency D of a package P
\* with default features has the edge (P, default) -> (resolve(D), default)
\* and every requested feature F the edge (P, default) -> (resolve(D), F),
\* the target being the resolved package's id when D resolves and D's
\* declared name only when it does not.
C8_DependencyEdges ==
    (cmd = "implies" /\ pc = "scan") =>
        \A p \in PkgSet : \A d \in DepSet(p) :
            LET r == resolve_dep(p, d, meta)
                target == IF IsSome(r) THEN Unwrap(r).id ELSE d.name
            IN  /\ d.uses_default_features =>
                      VecContains(dag, << CrateAndFeature(p.id, DefaultFeature),
                                          CrateAndFeature(target, DefaultFeature) >>)
                /\ \A f \in SeqToSet(d.features) :
                      VecContains(dag, << CrateAndFeature(p.id, DefaultFeature),
                                          CrateAndFeature(target, f) >>)

\* C9: with a resolve graph, resolve_dep returns the package of the edge of
\* P's node named by D's effective name (the rename when set, else the
\* declared name, dashes normalized), and None only without node, edge or
\* package.
C9_Expected ==
    LET pkg == meta.packages[args.pkg]
        dep == pkg.dependencies[args.dep]
        name == ReplaceChar(Effective(dep.rename, dep.name), "-", "_")
        edges == {nd \in UNION {SeqToSet(n.deps) :
                                   n \in {k \in SeqToSet(Unwrap(meta.resolve).nodes) :
                                            k.id = pkg.id}} : nd.name = name}
        hits == {p \in PkgSet : \E nd \in edges : nd.pkg = p.id}
    IN  IF hits = {} THEN None ELSE Some(CHOOSE p \in hits : TRUE)

C9_ResolveFromGraph ==
    (cmd = "resolve" /\ pc = "done" /\ IsSome(meta.resolve)) => result = C9_Expected

\* C10: save() is called on a manifest only after an add_to_feature on the
\* same manifest, at most once per manifest, and a faulty package to which
\* nothing was added triggers neither a save nor an unwrap of an absent fixer.
C10_SaveAfterEdit ==
    Classified =>
        /\ \A i \in DOMAIN calls : calls[i].op = "save" =>
              /\ \E j \in 1..(i - 1) :
                    calls[j].op = "add_to_feature" /\ calls[j].id = calls[i].id
              /\ \A j \in DOMAIN calls :
                    (calls[j].op = "save" /\ calls[j].id = calls[i].id) => j = i
        /\ exit_code # Some(PanicCode)

=============================================================================
